---- MODULE Spec2Model ----
(***************************************************************************)
(* A model of python-nucled (src/nucled/nucled.py, src/nucled/cli.py):     *)
(* the LED object with its lazily fetched properties, the device control   *)
(* file it reads and writes, notify's temporary override and the           *)
(* context-manager protocol.                                               *)
(*                                                                         *)
(* Strings of the program are modelled structurally:                       *)
(*   - a state string "ring,50,none,blue" is the tuple                     *)
(*     <<"ring", 50, "none", "blue">>;                                     *)
(*   - a line of the status text is a record of the features the parser    *)
(*     looks at (see Line);                                                *)
(*   - enum members are named by their Python names ("Solid", "Blue"),     *)
(*     their values are the symbols sent to the driver ("none", "blue").   *)
(* An optional value (Python None or a value) is <<>> or <<v>>.            *)
(***************************************************************************)
EXTENDS Integers, Sequences, FiniteSets, TLC

VARIABLES
    target,     \* self._target, fixed by the constructor (Ring / Power)
    mem,        \* self._brightness, self._effect, self._color
    dev,        \* what the driver holds for this target: brightness and codes
    seen,       \* the shape of the status text at the latest read of the device
    pc,         \* "idle", or "sleeping" inside notify's time.sleep
    saved,      \* notify's local current_state while notify runs
    scope,      \* position relative to a `with led:` block
    last,       \* the most recent call: its name, argument and outcome
    writes,     \* the strings written to the device by the most recent call
    reads       \* the number of reads of the device by the most recent call

vars == <<target, mem, dev, seen, pc, saved, scope, last, writes, reads>>

----------------------------------------------------------------------------
(* Optional values *)

None == <<>>

Some(x) == <<x>>

Val(o) == o[1]

(* The fields of a newly constructed LED *)
NewLED == [b |-> None, e |-> None, c |-> None]

----------------------------------------------------------------------------
(* Enumerations and tables *)

Targets == {"ring", "power"}

EffectMembers ==
    {"BlinkFast", "BlinkMedium", "BlinkSlow", "FadeFast", "FadeMedium", "FadeSlow", "Solid"}

EffectValue(m) ==
    CASE m = "BlinkFast" -> "blink_fast"
      [] m = "BlinkMedium" -> "blink_medium"
      [] m = "BlinkSlow" -> "blink_slow"
      [] m = "FadeFast" -> "fade_fast"
      [] m = "FadeMedium" -> "fade_medium"
      [] m = "FadeSlow" -> "fade_slow"
      [] m = "Solid" -> "none"

(* Mutation: the codes of BlinkSlow and BlinkMedium exchanged *)
EFFECT_MAP_swapped ==
    (0 :> "Solid") @@ (1 :> "BlinkFast") @@ (2 :> "BlinkMedium") @@ (3 :> "FadeFast") @@
    (4 :> "Solid") @@ (5 :> "BlinkSlow") @@ (6 :> "FadeSlow") @@ (7 :> "FadeMedium")

EFFECT_MAP ==
    (0 :> "Solid") @@ (1 :> "BlinkFast") @@ (2 :> "BlinkSlow") @@ (3 :> "FadeFast") @@
    (4 :> "Solid") @@ (5 :> "BlinkMedium") @@ (6 :> "FadeSlow") @@ (7 :> "FadeMedium")

ColorMembers ==
    {"Off", "Amber", "Cyan", "Pink", "Yellow", "Blue", "Red", "Green", "White"}

ColorValue(m) ==
    CASE m = "Off" -> "off"
      [] m = "Amber" -> "amber"
      [] m = "Cyan" -> "cyan"
      [] m = "Pink" -> "pink"
      [] m = "Yellow" -> "yellow"
      [] m = "Blue" -> "blue"
      [] m = "Red" -> "red"
      [] m = "Green" -> "green"
      [] m = "White" -> "white"

RingColors ==
    (0 :> "Off") @@ (1 :> "Cyan") @@ (2 :> "Pink") @@ (3 :> "Yellow") @@
    (4 :> "Blue") @@ (5 :> "Red") @@ (6 :> "Green") @@ (7 :> "White")

PowerColors ==
    (0 :> "Off") @@ (1 :> "Blue") @@ (2 :> "Amber")

(* Mutation: one colour table for both targets *)
supported_colors_shared(t) == RingColors

supported_colors(t) == IF t = "ring" THEN RingColors ELSE PowerColors

SupportedValues(t) == {supported_colors(t)[k] : k \in DOMAIN supported_colors(t)}

MinBrightness == 0

MaxBrightness == 100

----------------------------------------------------------------------------
(* Arguments of the calls.  A setter takes an enum member or a string.     *)

Str(s) == [isstr |-> TRUE, v |-> s]

Enum(m) == [isstr |-> FALSE, v |-> m]

ColorInputs == {Str("green"), Enum("Amber"), Str("bogus")}

EffectInputs == {Str("blink_fast"), Str("bogus")}

BrightnessInputs == {-1, 0, 101}

----------------------------------------------------------------------------
(* The status text of the device *)

Line(text, colons, prefix, words, pct, code) ==
    [text |-> text, colons |-> colons, prefix |-> prefix, words |-> words,
     pct |-> pct, code |-> code]

BlankLine == Line("", 0, "", {}, None, None)

NulLine == Line("NUL", 0, "", {}, None, None)

GarbledLine == Line("rec", 0, "garbled", {}, None, None)

Title(t) == IF t = "ring" THEN "Ring" ELSE "Power"

Lower(s) ==
    CASE s = "Ring" -> "ring"
      [] s = "Power" -> "power"
      [] OTHER -> s

Other(t) == IF t = "ring" THEN "power" ELSE "ring"

OtherDev(t) ==
    IF t = "ring" THEN [b |-> 100, e |-> 0, c |-> 2]
    ELSE [b |-> 80, e |-> 5, c |-> 6]

UnknownCode(table) == CHOOSE k \in 0..15 : k \notin DOMAIN table

(* The shapes of the status text: well-formed; a line without ':' after    *)
(* the brightness line; an effect or a colour code outside the tables; no  *)
(* colour line.                                                            *)
Faults == {"none", "nocolon", "badeffect", "badcolor", "nocolor"}

BrightnessLine(t, d) == Line("rec", 1, Title(t), {"Brightness"}, Some(d.b), None)

BlinkLine(t, d) == Line("rec", 1, Title(t), {"Blink"}, None, Some(d.e))

ColorLine(t, d) == Line("rec", 1, Title(t), {"Color"}, None, Some(d.c))

Block(t, d) == <<BrightnessLine(t, d), BlinkLine(t, d), ColorLine(t, d)>>

OwnBlock(t, d, f) ==
    CASE f = "none" -> Block(t, d)
      [] f = "nocolon" -> <<BrightnessLine(t, d), GarbledLine, BlinkLine(t, d), ColorLine(t, d)>>
      [] f = "badeffect" -> Block(t, [d EXCEPT !.e = UnknownCode(EFFECT_MAP)])
      [] f = "badcolor" -> Block(t, [d EXCEPT !.c = UnknownCode(supported_colors(t))])
      [] f = "nocolor" -> <<BrightnessLine(t, d), BlinkLine(t, d)>>

(* A line of a target with a field this program does not know *)
UnknownLine(t) == Line("rec", 1, Title(t), {}, None, None)

Text(t, d, f) ==
    IF t = "power"
    THEN OwnBlock(t, d, f) \o <<UnknownLine(t), BlankLine>>
            \o Block(Other(t), OtherDev(t)) \o <<UnknownLine(Other(t)), NulLine>>
    ELSE Block(Other(t), OtherDev(t)) \o <<UnknownLine(Other(t)), BlankLine>>
            \o OwnBlock(t, d, f) \o <<UnknownLine(t), NulLine>>

----------------------------------------------------------------------------
(* Parsing the status text: LED._parse_* and LED.fetch_state.              *)
(* A result is [exc |-> "ok", val |-> v] or [exc |-> <the exception>].     *)

Ok(v) == [exc |-> "ok", val |-> v]

Raised(e) == [exc |-> e, val |-> None]

parse_brightness(l) ==
    IF l.pct = None THEN Raised("ValueError") ELSE Ok(Val(l.pct))

parse_color(t, l) ==
    IF l.code = None THEN Raised("AttributeError")
    ELSE IF Val(l.code) \notin DOMAIN supported_colors(t) THEN Raised("KeyError")
    ELSE Ok(supported_colors(t)[Val(l.code)])

parse_effect(l) ==
    IF l.code = None THEN Raised("AttributeError")
    ELSE IF Val(l.code) \notin DOMAIN EFFECT_MAP THEN Raised("KeyError")
    ELSE Ok(EFFECT_MAP[Val(l.code)])

RECURSIVE FetchLines(_, _, _)

(* Mutation: a fetch that takes the lines of either target *)
FetchLines_any_target(t, m, lines) ==
    IF lines = <<>> THEN [mem |-> m, exc |-> "ok"]
    ELSE LET l == Head(lines)
             rest == Tail(lines)
         IN IF l.text = "" \/ l.text = "NUL" THEN FetchLines(t, m, rest)
            ELSE IF l.colons # 1 THEN [mem |-> m, exc |-> "ValueError"]
            ELSE IF "Brightness" \in l.words
                 THEN LET r == parse_brightness(l)
                      IN IF r.exc # "ok" THEN [mem |-> m, exc |-> r.exc]
                         ELSE FetchLines(t, [m EXCEPT !.b = Some(r.val)], rest)
            ELSE IF "Blink" \in l.words
                 THEN LET r == parse_effect(l)
                      IN IF r.exc # "ok" THEN [mem |-> m, exc |-> r.exc]
                         ELSE FetchLines(t, [m EXCEPT !.e = Some(r.val)], rest)
            ELSE IF "Color" \in l.words
                 THEN LET r == parse_color(t, l)
                      IN IF r.exc # "ok" THEN [mem |-> m, exc |-> r.exc]
                         ELSE FetchLines(t, [m EXCEPT !.c = Some(r.val)], rest)
            ELSE FetchLines(t, m, rest)

FetchLines(t, m, lines) ==
    IF lines = <<>> THEN [mem |-> m, exc |-> "ok"]
    ELSE LET l == Head(lines)
             rest == Tail(lines)
         IN IF l.text = "" \/ l.text = "NUL" THEN FetchLines(t, m, rest)
            ELSE IF l.colons # 1 THEN [mem |-> m, exc |-> "ValueError"]
            ELSE IF Lower(l.prefix) # t THEN FetchLines(t, m, rest)
            ELSE IF "Brightness" \in l.words
                 THEN LET r == parse_brightness(l)
                      IN IF r.exc # "ok" THEN [mem |-> m, exc |-> r.exc]
                         ELSE FetchLines(t, [m EXCEPT !.b = Some(r.val)], rest)
            ELSE IF "Blink" \in l.words
                 THEN LET r == parse_effect(l)
                      IN IF r.exc # "ok" THEN [mem |-> m, exc |-> r.exc]
                         ELSE FetchLines(t, [m EXCEPT !.e = Some(r.val)], rest)
            ELSE IF "Color" \in l.words
                 THEN LET r == parse_color(t, l)
                      IN IF r.exc # "ok" THEN [mem |-> m, exc |-> r.exc]
                         ELSE FetchLines(t, [m EXCEPT !.c = Some(r.val)], rest)
            ELSE FetchLines(t, m, rest)

(* Mutation: a fetch that drops the fields it finds already filled *)
fetch_state_invalidates(t, m, d, f) ==
    IF m.b # None THEN [mem |-> NewLED, exc |-> "ok"] ELSE FetchLines(t, m, Text(t, d, f))

fetch_state(t, m, d, f) == FetchLines(t, m, Text(t, d, f))

(* Eval(e, F) is F(e) with e evaluated once *)
Eval(e, F(_)) == CHOOSE y \in {F(x) : x \in {e}} : TRUE

(* get_state_string: [mem, exc, str, reads] *)
NoStr == <<>>

FormatState(t, m) == <<t, Val(m.b), EffectValue(Val(m.e)), ColorValue(Val(m.c))>>

get_state_string(t, m, d, f) ==
    Eval(IF m.b = None THEN fetch_state(t, m, d, f) ELSE [mem |-> m, exc |-> "ok"],
         LAMBDA r :
            LET n == IF m.b = None THEN 1 ELSE 0
                raise(e) == [mem |-> r.mem, exc |-> e, str |-> NoStr, reads |-> n]
            IN IF r.exc # "ok" THEN raise(r.exc)
               ELSE IF r.mem.e = None \/ r.mem.c = None THEN raise("AttributeError")
               ELSE IF r.mem.b = None THEN raise("TypeError")
               ELSE [mem |-> r.mem, exc |-> "ok", str |-> FormatState(t, r.mem),
                     reads |-> n])

----------------------------------------------------------------------------
(* The driver's side of a write: a well-formed command for this target     *)
(* replaces what the driver holds; anything else is rejected.              *)

EffectCode(t, sym) ==
    IF sym = "none" THEN (IF t = "power" THEN 0 ELSE 4)
    ELSE CHOOSE k \in DOMAIN EFFECT_MAP : EffectValue(EFFECT_MAP[k]) = sym

ColorCode(t, sym) ==
    CHOOSE k \in DOMAIN supported_colors(t) : ColorValue(supported_colors(t)[k]) = sym

Accepts(t, x) ==
    /\ Len(x) = 4
    /\ x[1] = t
    /\ x[2] \in MinBrightness..MaxBrightness
    /\ x[3] \in {EffectValue(m) : m \in EffectMembers}
    /\ x[4] \in {ColorValue(m) : m \in SupportedValues(t)}

DeviceWrite(t, d, x) ==
    IF Accepts(t, x)
    THEN [b |-> x[2], e |-> EffectCode(t, x[3]), c |-> ColorCode(t, x[4])]
    ELSE d

----------------------------------------------------------------------------
(* The setters: [mem, exc] *)

(* Mutation: the colour setter without the check against the target's set *)
color_setter_unchecked(t, m, color) ==
    IF color.isstr /\ color.v \notin {ColorValue(c) : c \in ColorMembers}
    THEN [mem |-> m, exc |-> "ValueError"]
    ELSE LET c == IF color.isstr
                  THEN CHOOSE x \in ColorMembers : ColorValue(x) = color.v
                  ELSE color.v
         IN [mem |-> [m EXCEPT !.c = Some(c)], exc |-> "ok"]

color_setter(t, m, color) ==
    IF color.isstr /\ color.v \notin {ColorValue(c) : c \in ColorMembers}
    THEN [mem |-> m, exc |-> "ValueError"]
    ELSE LET c == IF color.isstr
                  THEN CHOOSE x \in ColorMembers : ColorValue(x) = color.v
                  ELSE color.v
         IN IF c \notin SupportedValues(t)
            THEN [mem |-> m, exc |-> "LEDException"]
            ELSE [mem |-> [m EXCEPT !.c = Some(c)], exc |-> "ok"]

(* Mutation: the brightness setter clamping instead of raising *)
brightness_setter_clamps(m, brightness) ==
    [mem |-> [m EXCEPT !.b = Some(IF brightness < MinBrightness THEN MinBrightness
                                  ELSE IF brightness > MaxBrightness THEN MaxBrightness
                                  ELSE brightness)],
     exc |-> "ok"]

brightness_setter(m, brightness) ==
    IF brightness < MinBrightness \/ brightness > MaxBrightness
    THEN [mem |-> m, exc |-> "LEDException"]
    ELSE [mem |-> [m EXCEPT !.b = Some(brightness)], exc |-> "ok"]

effect_setter(m, effect) ==
    IF effect.isstr /\ effect.v \notin {EffectValue(e) : e \in EffectMembers}
    THEN [mem |-> m, exc |-> "ValueError"]
    ELSE LET e == IF effect.isstr
                  THEN CHOOSE x \in EffectMembers : EffectValue(x) = effect.v
                  ELSE effect.v
         IN [mem |-> [m EXCEPT !.e = Some(e)], exc |-> "ok"]

----------------------------------------------------------------------------
(* The methods that touch the device: [mem, dev, writes, reads, exc] *)

set_state(t, m, d, f) ==
    Eval(get_state_string(t, m, d, f),
         LAMBDA g :
            IF g.exc # "ok"
            THEN [mem |-> g.mem, dev |-> d, writes |-> <<>>, reads |-> g.reads,
                  exc |-> g.exc]
            ELSE [mem |-> g.mem, dev |-> DeviceWrite(t, d, g.str), writes |-> <<g.str>>,
                  reads |-> g.reads, exc |-> "ok"])

(* Mutation: set_state_from_string writing without fetching again *)
set_state_from_string_no_fetch(t, m, d, f, x) ==
    [mem |-> m, dev |-> DeviceWrite(t, d, x), writes |-> <<x>>, reads |-> 0, exc |-> "ok"]

(* Mutation: set_state_from_string re-fetching without writing *)
set_state_from_string_no_write(t, m, d, f, x) ==
    Eval(fetch_state(t, m, d, f),
         LAMBDA r : [mem |-> r.mem, dev |-> d, writes |-> <<>>, reads |-> 1, exc |-> r.exc])

set_state_from_string(t, m, d, f, x) ==
    Eval(DeviceWrite(t, d, x),
         LAMBDA d2 :
            Eval(fetch_state(t, m, d2, f),
                 LAMBDA r : [mem |-> r.mem, dev |-> d2, writes |-> <<x>>, reads |-> 1,
                             exc |-> r.exc]))

(* Mutation: notify assigning brightness and effect before colour *)
apply_overrides_color_last(t, m, color, brightness, effect) ==
    Eval(IF brightness # None THEN brightness_setter(m, Val(brightness))
         ELSE [mem |-> m, exc |-> "ok"],
         LAMBDA b1 :
            IF b1.exc # "ok" THEN b1
            ELSE Eval(IF effect # None THEN effect_setter(b1.mem, Val(effect)) ELSE b1,
                      LAMBDA e1 :
                         IF e1.exc # "ok" THEN e1
                         ELSE IF color # None THEN color_setter(t, e1.mem, Val(color))
                         ELSE e1))

(* The three conditional assignments of notify, in the order of the code:  *)
(* [mem, exc], the first exception ending them.                            *)
apply_overrides(t, m, color, brightness, effect) ==
    Eval(IF color # None THEN color_setter(t, m, Val(color)) ELSE [mem |-> m, exc |-> "ok"],
         LAMBDA c1 :
            IF c1.exc # "ok" THEN c1
            ELSE Eval(IF brightness # None THEN brightness_setter(c1.mem, Val(brightness))
                      ELSE c1,
                      LAMBDA b1 :
                         IF b1.exc # "ok" THEN b1
                         ELSE IF effect # None THEN effect_setter(b1.mem, Val(effect))
                         ELSE b1))

(* notify up to and including self.set_state(): the result of set_state    *)
(* with the local current_state, or the first exception raised before it.  *)
notify_begin(t, m, d, f, color, brightness, effect) ==
    Eval(get_state_string(t, m, d, f),
         LAMBDA g :
            LET stop(m2, e) == [mem |-> m2, dev |-> d, writes |-> <<>>, reads |-> g.reads,
                                exc |-> e, saved |-> g.str]
            IN IF g.exc # "ok" THEN stop(g.mem, g.exc)
               ELSE Eval(apply_overrides(t, g.mem, color, brightness, effect),
                         LAMBDA o :
                            IF o.exc # "ok" THEN stop(o.mem, o.exc)
                            ELSE Eval(set_state(t, o.mem, d, f),
                                      LAMBDA w : [mem |-> w.mem, dev |-> w.dev,
                                                  writes |-> w.writes,
                                                  reads |-> g.reads + w.reads,
                                                  exc |-> w.exc, saved |-> g.str])))

----------------------------------------------------------------------------
(* The state machine *)

InitDev(t) ==
    IF t = "ring" THEN [b |-> 50, e |-> 4, c |-> 4] ELSE [b |-> 50, e |-> 0, c |-> 1]

RawInputs(t) ==
    {<<t, 50, "none", "blue">>, <<t, 100, "blink_fast", "green">>, <<"garbage">>}

Opt(S) == {None} \cup {Some(x) : x \in S}

Init ==
    /\ target \in Targets
    /\ mem = [b |-> None, e |-> None, c |-> None]
    /\ dev = InitDev(target)
    /\ seen = "unread"
    /\ pc = "idle"
    /\ saved = NoStr
    /\ scope = "none"
    /\ last = [op |-> "init", arg |-> <<>>, exc |-> "ok"]
    /\ writes = <<>>
    /\ reads = 0

(* A call returns or raises; an exception raised inside a with-block       *)
(* leaves the block, which runs __exit__.                                  *)
Return(op, arg, exc) ==
    /\ last' = [op |-> op, arg |-> arg, exc |-> exc]
    /\ scope' = IF exc # "ok" /\ scope = "in" THEN "unwinding" ELSE scope

Callable == pc = "idle" /\ scope # "unwinding"

(* The shape of the status text at a call's read of the device: any shape  *)
(* if the call reads; the text is not looked at otherwise.                 *)
Shapes(doesRead) == IF doesRead THEN Faults ELSE {seen}

FetchState ==
    /\ Callable
    /\ \E f \in Shapes(TRUE) :
          /\ seen' = f
          /\ \E r \in {fetch_state(target, mem, dev, f)} :
                /\ mem' = r.mem
                /\ writes' = <<>>
                /\ reads' = 1
                /\ Return("fetch_state", <<>>, r.exc)
    /\ UNCHANGED <<target, dev, pc, saved>>

GetStateString ==
    /\ Callable
    /\ \E f \in Shapes(mem.b = None) :
          /\ seen' = f
          /\ \E g \in {get_state_string(target, mem, dev, f)} :
                /\ mem' = g.mem
                /\ writes' = <<>>
                /\ reads' = g.reads
                /\ Return("get_state_string", <<>>, g.exc)
    /\ UNCHANGED <<target, dev, pc, saved>>

SetStateFromString(x) ==
    /\ Callable
    /\ \E f \in Shapes(TRUE) :
          /\ seen' = f
          /\ \E r \in {set_state_from_string(target, mem, dev, f, x)} :
                /\ mem' = r.mem
                /\ dev' = r.dev
                /\ writes' = r.writes
                /\ reads' = r.reads
                /\ Return("set_state_from_string", x, r.exc)
    /\ UNCHANGED <<target, pc, saved>>

SetState ==
    /\ Callable
    /\ \E f \in Shapes(mem.b = None) :
          /\ seen' = f
          /\ \E r \in {set_state(target, mem, dev, f)} :
                /\ mem' = r.mem
                /\ dev' = r.dev
                /\ writes' = r.writes
                /\ reads' = r.reads
                /\ Return("set_state", <<>>, r.exc)
    /\ UNCHANGED <<target, pc, saved>>

(* Mutation: a getter that reads the device at every call *)
GetterAlwaysFetches(op, field) ==
    /\ Callable
    /\ \E f \in Shapes(TRUE) :
          /\ seen' = f
          /\ \E r \in {fetch_state(target, mem, dev, f)} :
                /\ mem' = r.mem
                /\ writes' = <<>>
                /\ reads' = 1
                /\ Return(op, <<>>, r.exc)
    /\ UNCHANGED <<target, dev, pc, saved>>

(* The property getters: fetch when the field itself is None *)
Getter(op, field) ==
    /\ Callable
    /\ \E f \in Shapes(mem[field] = None) :
          /\ seen' = f
          /\ \E r \in {IF mem[field] = None THEN fetch_state(target, mem, dev, f)
                       ELSE [mem |-> mem, exc |-> "ok"]} :
                /\ mem' = r.mem
                /\ writes' = <<>>
                /\ reads' = IF mem[field] = None THEN 1 ELSE 0
                /\ Return(op, <<>>, r.exc)
    /\ UNCHANGED <<target, dev, pc, saved>>

GetColor == Getter("color", "c")

GetBrightness == Getter("brightness", "b")

GetEffect == Getter("effect", "e")

(* Mutation: a setter that commits what it stored *)
SetterWritesThrough(op, arg, r) ==
    /\ Callable
    /\ mem' = r.mem
    /\ \E w \in {IF r.exc = "ok" /\ r.mem.b # None /\ r.mem.e # None /\ r.mem.c # None
                  THEN <<FormatState(target, r.mem)>> ELSE <<>>} :
          /\ writes' = w
          /\ dev' = IF w = <<>> THEN dev ELSE DeviceWrite(target, dev, w[1])
    /\ reads' = 0
    /\ Return(op, arg, r.exc)
    /\ UNCHANGED <<target, seen, pc, saved>>

Setter(op, arg, r) ==
    /\ Callable
    /\ mem' = r.mem
    /\ writes' = <<>>
    /\ reads' = 0
    /\ Return(op, arg, r.exc)
    /\ UNCHANGED <<target, dev, seen, pc, saved>>

SetColor(color) == Setter("color=", color, color_setter(target, mem, color))

SetBrightness(brightness) ==
    Setter("brightness=", brightness, brightness_setter(mem, brightness))

SetEffect(effect) == Setter("effect=", effect, effect_setter(mem, effect))

NotifyStart(color, brightness, effect) ==
    /\ Callable
    /\ \E f \in Shapes(mem.b = None) :
          /\ seen' = f
          /\ \E r \in {notify_begin(target, mem, dev, f, color, brightness, effect)} :
                /\ mem' = r.mem
                /\ dev' = r.dev
                /\ writes' = r.writes
                /\ reads' = r.reads
                /\ IF r.exc = "ok"
                   THEN /\ pc' = "sleeping"
                        /\ saved' = r.saved
                        /\ last' = [op |-> "notify", arg |-> <<color, brightness, effect>>,
                                    exc |-> "running"]
                        /\ scope' = scope
                   ELSE /\ pc' = "idle"
                        /\ saved' = NoStr
                        /\ Return("notify", <<color, brightness, effect>>, r.exc)
    /\ UNCHANGED target

(* time.sleep(duration) returns: self.set_state_from_string(current_state) *)
NotifyWake ==
    /\ pc = "sleeping"
    /\ \E f \in Shapes(TRUE) :
          /\ seen' = f
          /\ \E r \in {set_state_from_string(target, mem, dev, f, saved)} :
                /\ mem' = r.mem
                /\ dev' = r.dev
                /\ writes' = writes \o r.writes
                /\ reads' = reads + r.reads
                /\ Return("notify", <<>>, r.exc)
    /\ pc' = "idle"
    /\ saved' = NoStr
    /\ UNCHANGED target

(* time.sleep(duration) raises (KeyboardInterrupt): notify has no handler  *)
NotifyInterrupt ==
    /\ pc = "sleeping"
    /\ Return("notify", <<>>, "KeyboardInterrupt")
    /\ pc' = "idle"
    /\ saved' = NoStr
    /\ UNCHANGED <<target, mem, dev, seen, writes, reads>>

Enter ==
    /\ pc = "idle"
    /\ scope = "none"
    /\ \E f \in Shapes(TRUE) :
          /\ seen' = f
          /\ \E r \in {fetch_state(target, mem, dev, f)} :
                /\ mem' = r.mem
                /\ writes' = <<>>
                /\ reads' = 1
                /\ last' = [op |-> "__enter__", arg |-> <<>>, exc |-> r.exc]
                /\ scope' = IF r.exc = "ok" THEN "in" ELSE "none"
    /\ UNCHANGED <<target, dev, pc, saved>>

(* Mutation: __exit__ committing only when the block ended normally *)
ExitCommitsOnSuccessOnly ==
    /\ pc = "idle"
    /\ scope \in {"in", "unwinding"}
    /\ \E f \in Shapes(scope = "in" /\ mem.b = None) :
          /\ seen' = f
          /\ \E r \in {IF scope = "in" THEN set_state(target, mem, dev, f)
                       ELSE [mem |-> mem, dev |-> dev, writes |-> <<>>, reads |-> 0,
                             exc |-> "ok"]} :
                /\ mem' = r.mem
                /\ dev' = r.dev
                /\ writes' = r.writes
                /\ reads' = r.reads
                /\ last' = [op |-> "__exit__", arg |-> scope, exc |-> r.exc]
    /\ scope' = "none"
    /\ UNCHANGED <<target, pc, saved>>

Exit ==
    /\ pc = "idle"
    /\ scope \in {"in", "unwinding"}
    /\ \E f \in Shapes(mem.b = None) :
          /\ seen' = f
          /\ \E r \in {set_state(target, mem, dev, f)} :
                /\ mem' = r.mem
                /\ dev' = r.dev
                /\ writes' = r.writes
                /\ reads' = r.reads
                /\ last' = [op |-> "__exit__", arg |-> scope, exc |-> r.exc]
    /\ scope' = "none"
    /\ UNCHANGED <<target, pc, saved>>

Next ==
    \/ FetchState
    \/ GetStateString
    \/ \E x \in RawInputs(target) : SetStateFromString(x)
    \/ SetState
    \/ GetColor
    \/ GetBrightness
    \/ GetEffect
    \/ \E c \in ColorInputs : SetColor(c)
    \/ \E b \in BrightnessInputs : SetBrightness(b)
    \/ \E e \in EffectInputs : SetEffect(e)
    \/ \E c \in Opt(ColorInputs), b \in Opt(BrightnessInputs), e \in Opt(EffectInputs) :
          NotifyStart(c, b, e)
    \/ NotifyWake
    \/ NotifyInterrupt
    \/ Enter
    \/ Exit

Spec == Init /\ [][Next]_vars

----------------------------------------------------------------------------
(* The brightness setter over the whole range of its validation *)

BrightnessSlack == 2

BrightnessRange == (0 - BrightnessSlack)..(100 + BrightnessSlack)

SetAnyBrightness == \E n \in BrightnessRange : SetBrightness(n)

SpecBrightness == Init /\ [][SetAnyBrightness]_vars

----------------------------------------------------------------------------
(* Every colour, as a setter argument, a notify override, a raw command    *)
(* and a code the driver reports.                                          *)

AllColorInputs ==
    {Str(ColorValue(m)) : m \in ColorMembers} \cup {Enum("Green"), Enum("Blue"), Str("bogus")}

InitColors ==
    /\ target \in Targets
    /\ mem = [b |-> None, e |-> None, c |-> None]
    /\ \E k \in DOMAIN supported_colors(target) : dev = [InitDev(target) EXCEPT !.c = k]
    /\ seen = "unread"
    /\ pc = "idle"
    /\ saved = NoStr
    /\ scope = "none"
    /\ last = [op |-> "init", arg |-> <<>>, exc |-> "ok"]
    /\ writes = <<>>
    /\ reads = 0

NextColors ==
    \/ \E c \in AllColorInputs : SetColor(c)
    \/ \E c \in AllColorInputs : NotifyStart(Some(c), None, None)
    \/ NotifyWake
    \/ NotifyInterrupt
    \/ \E sym \in {"green", "amber"} : SetStateFromString(<<target, 50, "none", sym>>)
    \/ FetchState
    \/ GetColor
    \/ SetState
    \/ Enter
    \/ Exit

SpecColors == InitColors /\ [][NextColors]_vars

----------------------------------------------------------------------------
(* The LED object by itself: its methods and properties, without notify    *)
(* and outside any with-block.                                             *)

NextObject ==
    \/ FetchState
    \/ GetStateString
    \/ \E x \in RawInputs(target) : SetStateFromString(x)
    \/ SetState
    \/ GetColor
    \/ GetBrightness
    \/ GetEffect
    \/ \E c \in ColorInputs : SetColor(c)
    \/ \E b \in BrightnessInputs : SetBrightness(b)
    \/ \E e \in EffectInputs : SetEffect(e)

SpecObject == Init /\ [][NextObject]_vars

----------------------------------------------------------------------------
(* The command line: each command is a process of its own, which builds a  *)
(* new LED for the target, runs the command's body and ends.               *)

(* `brightness [N]`: [mem, dev, writes, reads, exc].  click passes None    *)
(* for a missing argument; `if brightness:` is false for None and for 0.   *)
cli_brightness(t, d, f, brightness) ==
    IF brightness = None \/ Val(brightness) = 0
    THEN Eval(fetch_state(t, NewLED, d, f),
              LAMBDA r : [mem |-> r.mem, dev |-> d, writes |-> <<>>, reads |-> 1,
                          exc |-> r.exc])
    ELSE Eval(fetch_state(t, NewLED, d, f),
              LAMBDA en :
                 IF en.exc # "ok"
                 THEN [mem |-> en.mem, dev |-> d, writes |-> <<>>, reads |-> 1,
                       exc |-> en.exc]
                 ELSE Eval(brightness_setter(en.mem, Val(brightness)),
                           LAMBDA s :
                              Eval(set_state(t, s.mem, d, f),
                                   LAMBDA x :
                                      Eval(IF x.exc # "ok" THEN x.exc ELSE s.exc,
                                           LAMBDA e :
                                              IF e = "ok" /\ x.mem.b = None
                                              THEN Eval(fetch_state(t, x.mem, x.dev, f),
                                                        LAMBDA g :
                                                           [mem |-> g.mem, dev |-> x.dev,
                                                            writes |-> x.writes,
                                                            reads |-> 2 + x.reads,
                                                            exc |-> g.exc])
                                              ELSE [mem |-> x.mem, dev |-> x.dev,
                                                    writes |-> x.writes,
                                                    reads |-> 1 + x.reads,
                                                    exc |-> e]))))

CliBrightness(brightness) ==
    /\ pc = "idle"
    /\ scope = "none"
    /\ \E f \in Faults :
          /\ seen' = f
          /\ \E r \in {cli_brightness(target, dev, f, brightness)} :
                /\ mem' = r.mem
                /\ dev' = r.dev
                /\ writes' = r.writes
                /\ reads' = r.reads
                /\ last' = [op |-> "cli brightness", arg |-> brightness, exc |-> r.exc]
    /\ UNCHANGED <<target, pc, saved, scope>>

(* The arguments tried: none, and the integers within BrightnessSlack of   *)
(* either end of the valid range, on both sides of it.                     *)
CliBrightnessInputs ==
    Opt({n \in BrightnessRange :
            n <= MinBrightness + BrightnessSlack \/ n >= MaxBrightness - BrightnessSlack})

NextCli == \E n \in CliBrightnessInputs : CliBrightness(n)

SpecCli == Init /\ [][NextCli]_vars

----------------------------------------------------------------------------
(* Decoding and serializing, for every code the driver can report: any     *)
(* effect code of EFFECT_MAP, any colour code of the target's table.       *)

ReportedBrightness == {0, 50, 100}

InitCodes ==
    /\ target \in Targets
    /\ mem = NewLED
    /\ \E b \in ReportedBrightness, e \in DOMAIN EFFECT_MAP,
          c \in DOMAIN supported_colors(target) : dev = [b |-> b, e |-> e, c |-> c]
    /\ seen = "unread"
    /\ pc = "idle"
    /\ saved = NoStr
    /\ scope = "none"
    /\ last = [op |-> "init", arg |-> <<>>, exc |-> "ok"]
    /\ writes = <<>>
    /\ reads = 0

NextCodes ==
    \/ FetchState
    \/ GetStateString
    \/ SetState

SpecCodes == InitCodes /\ [][NextCodes]_vars

----------------------------------------------------------------------------
(* Vocabulary of the properties *)

MemSet(m) == m.b # None /\ m.e # None /\ m.c # None

ColorSymbols == {"off", "amber", "cyan", "pink", "yellow", "blue", "red", "green", "white"}

EffectSymbols ==
    {"blink_fast", "blink_medium", "blink_slow", "fade_fast", "fade_medium", "fade_slow", "none"}

SupportedSymbols(t) ==
    IF t = "ring" THEN {"off", "cyan", "pink", "yellow", "blue", "red", "green", "white"}
    ELSE {"off", "blue", "amber"}

(* The symbol an argument of a setter stands for *)
ColorSymbolOf(a) == IF a.isstr THEN a.v ELSE ColorValue(a.v)

EffectSymbolOf(a) == IF a.isstr THEN a.v ELSE EffectValue(a.v)

ValidColor(t, a) == ColorSymbolOf(a) \in SupportedSymbols(t)

ValidBrightness(n) == 0 <= n /\ n <= 100

ValidEffect(a) == EffectSymbolOf(a) \in EffectSymbols

(* args = <<color, brightness, effect>>, each None or Some(value) *)
ValidOverrides(t, args) ==
    /\ args[1] = None \/ ValidColor(t, Val(args[1]))
    /\ args[2] = None \/ ValidBrightness(Val(args[2]))
    /\ args[3] = None \/ ValidEffect(Val(args[3]))

(* The state string s with the overrides applied *)
Overridden(s, args) ==
    <<s[1],
      IF args[2] = None THEN s[2] ELSE Val(args[2]),
      IF args[3] = None THEN s[3] ELSE EffectSymbolOf(Val(args[3])),
      IF args[1] = None THEN s[4] ELSE ColorSymbolOf(Val(args[1]))>>

(* A step that is a call of notify, from its first statement *)
NotifyCalled == pc = "idle" /\ last'.op = "notify"

(* A step in which notify's sleep ends, by returning or by raising *)
SleepEnds == pc = "sleeping" /\ pc' = "idle"

----------------------------------------------------------------------------
(* C1: with every field of the in-memory state set (state string s) and    *)
(* valid overrides, notify writes s with the overrides applied, sleeps,    *)
(* and, completing, writes s: exactly these two writes, in this order.     *)
C1_NotifyTwoWrites ==
    [][/\ (NotifyCalled /\ MemSet(mem) /\ ValidOverrides(target, last'.arg))
            => /\ pc' = "sleeping"
               /\ saved' = FormatState(target, mem)
               /\ writes' = <<Overridden(FormatState(target, mem), last'.arg)>>
       /\ (SleepEnds /\ last'.exc = "ok")
            => /\ Len(writes) = 1
               /\ writes' = <<writes[1], saved>>]_vars

C1_Witness ==
    /\ last.op = "notify"
    /\ last.exc = "ok"
    /\ pc = "idle"
    /\ Len(writes) = 2
    /\ writes[1] # writes[2]
    /\ MemSet(mem)
    /\ writes[2] = FormatState(target, mem)

(* C2: once notify has written the override state, the restore write of    *)
(* the snapshot is the last write of the call however the sleep ends.      *)
C2_RestoreOnEveryExit ==
    [][SleepEnds => (writes' # <<>> /\ writes'[Len(writes')] = saved)]_vars

(* C3: a call of notify with an override that fails validation writes      *)
(* nothing: it raises without committing, sleeping or restoring.           *)
C3_InvalidOverrideNoWrite ==
    [][(NotifyCalled /\ ~ValidOverrides(target, last'.arg))
          => /\ writes' = <<>>
             /\ dev' = dev
             /\ pc' = "idle"
             /\ last'.exc \notin {"ok", "running"}]_vars

C3_Witness ==
    /\ last.op = "notify"
    /\ pc = "idle"
    /\ last.arg # <<>>
    /\ last.arg[1] # None /\ ValidColor(target, Val(last.arg[1]))
    /\ last.arg[2] # None /\ ~ValidBrightness(Val(last.arg[2]))
    /\ last.exc = "LEDException"
    /\ writes = <<>>

(* C4, as claimed: a call of notify with a colour outside the target's     *)
(* supported set writes nothing and leaves brightness, colour and effect   *)
(* in memory as they were before the call.                                 *)
BadColorOverride(t, args) == args[1] # None /\ ~ValidColor(t, Val(args[1]))

C4_BadColorLeavesMemory ==
    [][(NotifyCalled /\ BadColorOverride(target, last'.arg))
          => (writes' = <<>> /\ dev' = dev /\ mem' = mem)]_vars

(* C4, amended: such a call writes nothing and leaves the in-memory state  *)
(* as the snapshot step left it: untouched when brightness was set before  *)
(* the call, and otherwise changed by the snapshot's fetch alone.          *)
C4_BadColorLeavesSnapshotMemory ==
    [][(NotifyCalled /\ BadColorOverride(target, last'.arg))
          => /\ writes' = <<>>
             /\ dev' = dev
             /\ pc' = "idle"
             /\ last'.exc \notin {"ok", "running"}
             /\ mem.b # None => mem' = mem
             /\ mem.b = None => mem' = fetch_state(target, mem, dev, seen').mem]_vars

C4_Witness ==
    /\ last.op = "notify"
    /\ pc = "idle"
    /\ last.arg # <<>>
    /\ BadColorOverride(target, last.arg)
    /\ last.arg[2] = Some(0)
    /\ last.arg[3] = Some(Str("blink_fast"))
    /\ last.exc = "LEDException"
    /\ mem = [b |-> Some(50), e |-> Some("Solid"), c |-> Some("Blue")]
    /\ writes = <<>>

(* C5: the brightness setter stores n for every n of 0..100 and for every  *)
(* other n raises, storing nothing: no clamping.                           *)
C5_BrightnessExactlyClosedInterval ==
    [][last'.op = "brightness="
          => IF 0 <= last'.arg /\ last'.arg <= 100
             THEN last'.exc = "ok" /\ mem' = [mem EXCEPT !.b = Some(last'.arg)]
             ELSE last'.exc = "LEDException" /\ mem' = mem]_vars

C5_Witness ==
    /\ last.op = "brightness="
    /\ last.arg = 101
    /\ last.exc = "LEDException"
    /\ mem.b = Some(0)

(* C6: the colour setter stores exactly the colours of the target's set    *)
(* and raises for every other, storing nothing; the colour of a Power LED  *)
(* in memory is never anything but unset, Off, Blue or Amber.              *)
C6_TargetIsolation ==
    [][/\ last'.op = "color="
            => IF ValidColor(target, last'.arg)
               THEN /\ last'.exc = "ok"
                    /\ mem'.c # None
                    /\ ColorValue(Val(mem'.c)) = ColorSymbolOf(last'.arg)
                    /\ mem'.b = mem.b
                    /\ mem'.e = mem.e
               ELSE /\ mem' = mem
                    /\ last'.exc = IF ColorSymbolOf(last'.arg) \in ColorSymbols
                                   THEN "LEDException" ELSE "ValueError"
       /\ target = "power" => mem'.c \in {None, Some("Off"), Some("Blue"), Some("Amber")}
       /\ target' = target]_vars

C6_Witness ==
    /\ target = "power"
    /\ last.op = "color="
    /\ last.arg = Str("green")
    /\ last.exc = "LEDException"
    /\ mem.c = Some("Amber")

(* C7: a fetch that fails leaves brightness, colour and effect as they     *)
(* were before the fetch.                                                  *)
C7_FailedFetchChangesNothing ==
    [][(last'.op = "fetch_state" /\ last'.exc # "ok") => mem' = mem]_vars

(* C8: on a new LED, never fetched, with colour and brightness assigned,   *)
(* set_state completes and writes one command carrying both.               *)
C8_SettersThenSetState ==
    [][(pc = "idle" /\ last'.op = "set_state" /\ seen = "unread"
          /\ mem.c # None /\ mem.b # None)
          => /\ last'.exc = "ok"
             /\ Len(writes') = 1
             /\ writes'[1][2] = Val(mem.b)
             /\ writes'[1][4] = ColorValue(Val(mem.c))]_vars

(* C9: the setters never write to the device; whatever is written is       *)
(* written by set_state, set_state_from_string, notify or __exit__.        *)
C9_SettersDoNotWrite ==
    [][/\ last'.op \in {"color=", "brightness=", "effect="}
            => (writes' = <<>> /\ dev' = dev /\ reads' = 0)
       /\ (dev' # dev \/ (writes' # <<>> /\ writes' # writes))
            => last'.op \in {"set_state", "set_state_from_string", "notify", "__exit__"}]_vars

C9_Witness ==
    /\ last.op = "color="
    /\ last.exc = "ok"
    /\ seen = "none"
    /\ MemSet(mem)
    /\ FormatState(target, mem) # FormatState(target, fetch_state(target, mem, dev, "none").mem)
    /\ writes = <<>>

(* C10, as claimed: entering the block reads the device, and leaving it,   *)
(* normally or by an exception, writes exactly once: the serialization of  *)
(* the property values at exit.                                            *)
C10_ExitAlwaysWritesOnce ==
    [][/\ last'.op = "__enter__" => reads' = 1
       /\ last'.op = "__exit__"
            => (MemSet(mem) /\ writes' = <<FormatState(target, mem)>>)]_vars

(* C10, amended: leaving the block calls set_state once: with brightness,  *)
(* effect and colour all set at exit it writes exactly once, their         *)
(* serialization; with brightness set and effect or colour unset it        *)
(* raises and writes nothing.                                              *)
C10_ExitWritesOnceWhenSet ==
    [][/\ last'.op = "__enter__"
            => /\ reads' = 1
               /\ writes' = <<>>
               /\ mem' = fetch_state(target, mem, dev, seen').mem
               /\ scope' = IF last'.exc = "ok" THEN "in" ELSE "none"
       /\ last'.op = "__exit__"
            => /\ scope \in {"in", "unwinding"}
               /\ scope' = "none"
               /\ MemSet(mem)
                    => (writes' = <<FormatState(target, mem)>> /\ last'.exc = "ok"
                        /\ mem' = mem)
               /\ (mem.b # None /\ ~MemSet(mem))
                    => (writes' = <<>> /\ last'.exc = "AttributeError" /\ dev' = dev)]_vars

C10_Witness ==
    /\ last.op = "__exit__"
    /\ last.arg = "unwinding"
    /\ last.exc = "ok"
    /\ Len(writes) = 1
    /\ writes[1] # FormatState(target, fetch_state(target, mem, InitDev(target), "none").mem)


(* C11: the brightness command given an integer n of 0..100, 0 included,   *)
(* against a well-formed status text, commits: the device receives one     *)
(* command whose brightness is n; without an argument it only prints, and  *)
(* writes nothing.                                                         *)
C11_CliBrightnessCommits ==
    [][last'.op = "cli brightness"
          => /\ (last'.arg # None /\ ValidBrightness(Val(last'.arg)) /\ seen' = "none")
                  => /\ last'.exc = "ok"
                     /\ Len(writes') = 1
                     /\ writes'[1][2] = Val(last'.arg)
                     /\ dev'.b = Val(last'.arg)
             /\ last'.arg = None => (writes' = <<>> /\ dev' = dev)]_vars


(* The symbols of the codes, as the driver's documentation names them *)
EffectSymbolOfCode(k) ==
    CASE k = 0 -> "none"
      [] k = 1 -> "blink_fast"
      [] k = 2 -> "blink_slow"
      [] k = 3 -> "fade_fast"
      [] k = 4 -> "none"
      [] k = 5 -> "blink_medium"
      [] k = 6 -> "fade_slow"
      [] k = 7 -> "fade_medium"

ColorSymbolOfCode(t, k) ==
    IF t = "ring"
    THEN CASE k = 0 -> "off" [] k = 1 -> "cyan" [] k = 2 -> "pink" [] k = 3 -> "yellow"
           [] k = 4 -> "blue" [] k = 5 -> "red" [] k = 6 -> "green" [] k = 7 -> "white"
    ELSE CASE k = 0 -> "off" [] k = 1 -> "blue" [] k = 2 -> "amber"

SnapshotOf(t, d) == <<t, d.b, EffectSymbolOfCode(d.e), ColorSymbolOfCode(t, d.c)>>

(* C12: for every target, colour code of its table and effect code 0..7,   *)
(* a fetch of a well-formed status text carrying the codes succeeds and    *)
(* the state then serializes to the target's name, the brightness          *)
(* reported, and the symbols of the effect and colour codes (0 and 4 both  *)
(* give none); a serialization that begins by fetching gives the same.     *)
C12_DecodeSerializeRoundTrip ==
    [][/\ (last'.op = "fetch_state" /\ seen' = "none")
            => /\ last'.exc = "ok"
               /\ MemSet(mem')
               /\ FormatState(target, mem') = SnapshotOf(target, dev)
       /\ (last'.op = "set_state" /\ mem.b = None /\ seen' = "none")
            => /\ last'.exc = "ok"
               /\ writes' = <<SnapshotOf(target, dev)>>
       /\ (last'.op = "get_state_string" /\ mem.b = None /\ seen' = "none")
            => /\ last'.exc = "ok"
               /\ FormatState(target, mem') = SnapshotOf(target, dev)]_vars

C12_Witness ==
    /\ target = "ring"
    /\ last.op = "fetch_state"
    /\ last.exc = "ok"
    /\ dev = [b |-> 100, e |-> 0, c |-> 7]
    /\ FormatState(target, mem) = <<"ring", 100, "none", "white">>


(* C13: a fetch_state that follows a fetch_state, the device and the shape *)
(* of its status text being the same, leaves brightness, colour and effect *)
(* as the first left them and ends as the first ended, whatever the        *)
(* in-memory state before the first.                                       *)
C13_FetchIdempotent ==
    [][(last.op = "fetch_state" /\ last'.op = "fetch_state" /\ seen' = seen)
          => (mem' = mem /\ last'.exc = last.exc /\ dev' = dev)]_vars

C13_Witness ==
    /\ last.op = "fetch_state"
    /\ last.exc = "ok"
    /\ seen = "nocolor"
    /\ MemSet(mem)
    /\ mem.c # Some(supported_colors(target)[dev.c])
    /\ fetch_state(target, mem, dev, seen).mem = mem


(* The field a getter returns *)
FieldOf(op) ==
    CASE op = "color" -> "c"
      [] op = "brightness" -> "b"
      [] op = "effect" -> "e"

(* C14: a getter reads the device if and only if its own field is unset    *)
(* when it is called; with the field set it reads nothing and leaves the   *)
(* stored value, which it returns; the first getter called on a new LED,   *)
(* the status text carrying the target's three lines, sets all three       *)
(* fields.                                                                 *)
C14_LazyFetch ==
    [][last'.op \in {"color", "brightness", "effect"}
          => /\ reads' = IF mem[FieldOf(last'.op)] = None THEN 1 ELSE 0
             /\ writes' = <<>>
             /\ dev' = dev
             /\ mem[FieldOf(last'.op)] # None => (mem' = mem /\ last'.exc = "ok")
             /\ mem[FieldOf(last'.op)] = None => mem' = fetch_state(target, mem, dev, seen').mem
             /\ (mem = NewLED /\ seen' = "none") => (MemSet(mem') /\ last'.exc = "ok")]_vars

C14_Witness ==
    /\ last.op = "effect"
    /\ last.exc = "ok"
    /\ reads = 0
    /\ mem.e = Some("BlinkFast")
    /\ mem.b = None
    /\ EFFECT_MAP[dev.e] # "BlinkFast"


(* What a new LED reads from the device d showing a well-formed text *)
Reported(t, d) == fetch_state(t, NewLED, d, "none").mem

(* C15: set_state_from_string writes its argument as it is, once, and      *)
(* reads the device once after it: with a well-formed status text the      *)
(* in-memory fields are then those the device reports, whatever they were  *)
(* before.  Hence when notify completes against such a text, brightness,   *)
(* colour and effect in memory are those captured when notify started.     *)
C15_SetRawResynchronizes ==
    [][/\ last'.op = "set_state_from_string"
            => /\ writes' = <<last'.arg>>
               /\ reads' = 1
               /\ seen' = "none" => (last'.exc = "ok" /\ mem' = Reported(target, dev'))
       /\ (SleepEnds /\ last'.exc = "ok" /\ seen' = "none")
            => /\ Len(writes') = 2
               /\ writes'[2] = saved
               /\ mem' = Reported(target, dev')
               /\ FormatState(target, mem') = saved]_vars

C15_Witness ==
    /\ target = "ring"
    /\ last.op = "notify"
    /\ last.exc = "ok"
    /\ seen = "none"
    /\ Len(writes) = 2
    /\ writes[1] = <<"ring", 0, "blink_fast", "green">>
    /\ writes[2] = <<"ring", 50, "none", "blue">>
    /\ mem = [b |-> Some(50), e |-> Some("Solid"), c |-> Some("Blue")]


(* The lines of a status text that a fetch for target t takes a field from *)
Keywords == {"Brightness", "Blink", "Color"}

TakenBy(t, l) == l.colons = 1 /\ Lower(l.prefix) = t /\ l.words \cap Keywords # {}

(* C16: in a fetch of a status text with the lines of both targets, every  *)
(* line of the other target, and every line of the LED's own target with   *)
(* none of Brightness, Blink, Color, leaves the three fields as they are;  *)
(* a field the fetch changes has the value of the target's own line, and   *)
(* a well-formed text leaves exactly the values of the target's own lines. *)
C16_FetchFiltersTarget ==
    [][last'.op = "fetch_state"
          => LET text == Text(target, dev, seen')
                 own == [b |-> Some(dev.b), e |-> Some(EFFECT_MAP[dev.e]),
                         c |-> Some(supported_colors(target)[dev.c])]
             IN /\ \E i \in DOMAIN text : Lower(text[i].prefix) = Other(target)
                /\ \A i \in DOMAIN text :
                      (text[i].colons = 1 /\ ~TakenBy(target, text[i]))
                         => FetchLines(target, mem, <<text[i]>>) = [mem |-> mem, exc |-> "ok"]
                /\ \A fld \in {"b", "e", "c"} : mem'[fld] # mem[fld] => mem'[fld] = own[fld]
                /\ seen' = "none" => mem' = own
                /\ mem' = FetchLines(target, mem,
                                     SelectSeq(text, LAMBDA l : l.colons # 1
                                                                  \/ TakenBy(target, l))).mem]_vars

C16_Witness ==
    /\ target = "power"
    /\ last.op = "fetch_state"
    /\ last.exc = "ok"
    /\ seen = "none"
    /\ mem = [b |-> Some(0), e |-> Some("BlinkFast"), c |-> Some("Amber")]
    /\ \E i \in DOMAIN Text(target, dev, seen) :
          /\ Lower(Text(target, dev, seen)[i].prefix) = "ring"
          /\ Text(target, dev, seen)[i].pct = Some(80)


(* C17: on a new LED, the device not yet read, a field that is set was     *)
(* stored by a setter; a getter, get_state_string and set_state leave      *)
(* every such field as stored, and a set_state that completes writes the   *)
(* stored values.                                                          *)
C17_NoLostUpdate ==
    [][(seen = "unread"
          /\ last'.op \in {"color", "brightness", "effect", "get_state_string", "set_state"})
          => /\ \A fld \in {"b", "e", "c"} : mem[fld] # None => mem'[fld] = mem[fld]
             /\ (last'.op = "set_state" /\ last'.exc = "ok")
                  => /\ Len(writes') = 1
                     /\ mem.b # None => writes'[1][2] = Val(mem.b)
                     /\ mem.e # None => writes'[1][3] = EffectValue(Val(mem.e))
                     /\ mem.c # None => writes'[1][4] = ColorValue(Val(mem.c))]_vars


(* C18: a call of notify that raises for one of its overrides leaves       *)
(* brightness, colour and effect in memory as they were before the call;   *)
(* stated for calls made with every field set, where the snapshot step     *)
(* reads nothing.                                                          *)
C18_NotifyAllOrNothing ==
    [][(NotifyCalled /\ MemSet(mem) /\ ~ValidOverrides(target, last'.arg))
          => (last'.exc \notin {"ok", "running"} /\ mem' = mem)]_vars


(* C19: whatever setters were called before it, committed or not, a notify *)
(* that completes ends by writing the state the device held when notify    *)
(* was called: the snapshot it keeps is the device's state at the call,    *)
(* and the last write of the call is that snapshot.  Stated for a notify   *)
(* called right after a setter has stored a value, the latest status text  *)
(* read being well-formed.                                                 *)
C19_NotifyRestoresDeviceState ==
    [][/\ (NotifyCalled /\ pc' = "sleeping" /\ seen' = "none"
             /\ last.op \in {"color=", "brightness=", "effect="} /\ last.exc = "ok")
            => saved' = SnapshotOf(target, dev)
       /\ (SleepEnds /\ last'.exc = "ok")
            => (writes' # <<>> /\ writes'[Len(writes')] = saved)]_vars

====
